---- MODULE Spec2Model ----
(***************************************************************************)
(* Model of src/src/utils/OptionUtils.ts: profit/loss valuation of an      *)
(* options strategy, per-leg break-even points, max profit / max loss      *)
(* bounds, the median strike and the sampled chart curve.                  *)
(*                                                                         *)
(* Number representation.  The fields of a leg (strike_price, bid, ask)    *)
(* are whole numbers.  Every derived money amount (optionPrice, intrinsic  *)
(* value, profit/loss, break-even price, price argument) is kept in        *)
(* HALVES: the integer n stands for the number n/2, so that                *)
(* (bid + ask) / 2 is exact.  The chart's startPrice, endPrice, step and   *)
(* loop index are results of Math.round and are kept in whole units.       *)
(*                                                                         *)
(* Each behaviour is one call of one exported function on a caller-owned   *)
(* array `legs`: Init draws the array, one action per function applies it. *)
(* generateChartData is modelled statement by statement because its loop   *)
(* need not terminate.                                                     *)
(***************************************************************************)
EXTENDS Integers, Sequences, FiniteSets

VARIABLES legs, pc, op, argLeg, argPrice, result, isNaN, points,
          prices, profits, i, startPrice, endPrice, step

vars == <<legs, pc, op, argLeg, argPrice, result, isNaN, points,
          prices, profits, i, startPrice, endPrice, step>>

(* ---------------------------- bounds ----------------------------------- *)

MaxLegs == 2

MaxSamples == 13

(* ------------------------- the data model ------------------------------ *)

OptionType == {"Call", "Put"}

PositionType == {"Long", "Short"}

StrikePrices == {4, 15, 90, 100}

Quotes == {<<4, 6>>, <<0, 1>>}

Option ==
  { [type |-> t, position |-> p, strike_price |-> k, bid |-> q[1], ask |-> q[2]] :
      t \in OptionType, p \in PositionType, k \in StrikePrices, q \in Quotes }

Strategies == UNION { [1..n -> Option] : n \in 0..MaxLegs }

PriceInputs == {-20, 0, 8, 190, 200, 210}

(* ------------------------- number helpers ------------------------------ *)

Half(n) == 2 * n

MathMax(a, b) == IF a >= b THEN a ELSE b

MathMin(a, b) == IF a <= b THEN a ELSE b

MathFloor(n, d) == n \div d

MathRound(n, d) == (2 * n + d) \div (2 * d)

RECURSIVE Insert(_, _)
Insert(x, s) ==
  IF s = <<>> THEN <<x>>
  ELSE IF x < Head(s) THEN <<x>> \o s
  ELSE <<Head(s)>> \o Insert(x, Tail(s))

(* Faulty variant: comparator (a, b) => b - a. *)
RECURSIVE SortDesc(_)
SortDesc(s) ==
  IF s = <<>> THEN <<>>
  ELSE LET r == SortDesc(Tail(s))
           RECURSIVE Ins(_, _)
           Ins(x, t) == IF t = <<>> THEN <<x>>
                        ELSE IF x > Head(t) THEN <<x>> \o t
                        ELSE <<Head(t)>> \o Ins(x, Tail(t))
       IN Ins(Head(s), r)

RECURSIVE SortAsc(_)
SortAsc(s) ==
  IF s = <<>> THEN <<>>
  ELSE LET n == Len(s)
       IN Insert(s[n], SortAsc(SubSeq(s, 1, n - 1)))

(* --------------------------- valuation --------------------------------- *)

optionPrice(option) == option.bid + option.ask

(* Faulty variant: the Short branch computed like the Long branch. *)
calculateProfitLossAtPriceSameSign(option, price) ==
  LET isCall == option.type = "Call"
      intrinsicValue == IF isCall
                          THEN MathMax(price - Half(option.strike_price), 0)
                          ELSE MathMax(Half(option.strike_price) - price, 0)
  IN intrinsicValue - optionPrice(option)

calculateProfitLossAtPrice(option, price) ==
  LET isCall == option.type = "Call"
      isLong == option.position = "Long"
      intrinsicValue == IF isCall
                          THEN MathMax(price - Half(option.strike_price), 0)
                          ELSE MathMax(Half(option.strike_price) - price, 0)
  IN IF isLong THEN intrinsicValue - optionPrice(option)
               ELSE optionPrice(option) - intrinsicValue

RECURSIVE calculateStrategyProfitLoss(_, _)
calculateStrategyProfitLoss(options, price) ==
  IF options = <<>> THEN 0
  ELSE LET n == Len(options)
       IN calculateStrategyProfitLoss(SubSeq(options, 1, n - 1), price)
            + calculateProfitLossAtPrice(options[n], price)

(* ------------------------- break-even finder --------------------------- *)

breakEven(option) ==
  IF option.type = "Call"
    THEN IF option.position = "Long"
           THEN Half(option.strike_price) + optionPrice(option)
           ELSE Half(option.strike_price) - optionPrice(option)
    ELSE IF option.position = "Long"
           THEN Half(option.strike_price) - optionPrice(option)
           ELSE Half(option.strike_price) + optionPrice(option)

getBreakEvenPointsUnsorted(options) ==
  [k \in 1..Len(options) |-> breakEven(options[k])]

(* Faulty variant: sorted with the comparator reversed. *)
getBreakEvenPointsDescending(options) ==
  SortDesc([k \in 1..Len(options) |-> breakEven(options[k])])

getBreakEvenPoints(options) ==
  SortAsc([k \in 1..Len(options) |-> breakEven(options[k])])

(* -------------------------- bounds estimator --------------------------- *)

maxProfitCandidate(option) ==
  LET intrinsicValue == IF option.type = "Call" THEN Half(option.strike_price) ELSE 0
  IN IF option.position = "Long" THEN intrinsicValue - optionPrice(option)
                                 ELSE optionPrice(option) - intrinsicValue

(* Faulty variant: reduce without the initial value 0. *)
RECURSIVE getMaxProfitUnseeded(_)
getMaxProfitUnseeded(options) ==
  IF options = <<>> THEN 0
  ELSE IF Len(options) = 1 THEN maxProfitCandidate(options[1])
  ELSE LET n == Len(options)
       IN MathMax(getMaxProfitUnseeded(SubSeq(options, 1, n - 1)),
                  maxProfitCandidate(options[n]))

RECURSIVE getMaxProfit(_)
getMaxProfit(options) ==
  IF options = <<>> THEN 0
  ELSE LET n == Len(options)
       IN MathMax(getMaxProfit(SubSeq(options, 1, n - 1)),
                  maxProfitCandidate(options[n]))

maxLossCandidate(option) ==
  LET intrinsicValue == IF option.type = "Put" THEN Half(option.strike_price) ELSE 0
  IN IF option.position = "Long" THEN optionPrice(option) - intrinsicValue
                                 ELSE intrinsicValue - optionPrice(option)

RECURSIVE getMaxLoss(_)
getMaxLoss(options) ==
  IF options = <<>> THEN 0
  ELSE LET n == Len(options)
       IN MathMin(getMaxLoss(SubSeq(options, 1, n - 1)),
                  maxLossCandidate(options[n]))

(* ---------------------------- curve sampler ---------------------------- *)

CHART_PRICE_RANGE_NUM == 1

CHART_PRICE_RANGE_DEN == 2

CHART_STEP_COUNT == 10

(* Faulty variant: middleIndex = floor((length - 1) / 2). *)
calculateMedianStrikePriceLower(options) ==
  LET strikePrices == SortAsc([k \in 1..Len(options) |-> options[k].strike_price])
      middleIndex == MathFloor(Len(strikePrices) - 1, 2)
  IN strikePrices[middleIndex + 1]

calculateMedianStrikePrice(options) ==
  LET strikePrices == SortAsc([k \in 1..Len(options) |-> options[k].strike_price])
      middleIndex == MathFloor(Len(strikePrices), 2)
  IN strikePrices[middleIndex + 1]

(* Faulty variant: i < endPrice. *)
LoopCondStrict(index, end, nan) == ~nan /\ index < end

LoopCond(index, end, nan) == ~nan /\ index <= end

(* ------------------------------ state ---------------------------------- *)

Init ==
  /\ legs \in Strategies
  /\ pc = "idle"
  /\ op = "none"
  /\ argLeg = 0
  /\ argPrice = 0
  /\ result = 0
  /\ isNaN = FALSE
  /\ points = <<>>
  /\ prices = <<>>
  /\ profits = <<>>
  /\ i = 0
  /\ startPrice = 0
  /\ endPrice = 0
  /\ step = 0

chartVars == <<prices, profits, i, startPrice, endPrice, step>>

(* ------------------------- one action per call ------------------------- *)

CallCalculateProfitLossAtPrice ==
  /\ pc = "idle"
  /\ \E k \in DOMAIN legs, price \in PriceInputs :
       /\ argLeg' = k
       /\ argPrice' = price
       /\ result' = calculateProfitLossAtPrice(legs[k], price)
  /\ op' = "calculateProfitLossAtPrice"
  /\ pc' = "done"
  /\ UNCHANGED <<legs, isNaN, points, chartVars>>

CallCalculateStrategyProfitLoss ==
  /\ pc = "idle"
  /\ \E price \in PriceInputs :
       /\ argPrice' = price
       /\ result' = calculateStrategyProfitLoss(legs, price)
  /\ op' = "calculateStrategyProfitLoss"
  /\ pc' = "done"
  /\ UNCHANGED <<legs, argLeg, isNaN, points, chartVars>>

CallGetBreakEvenPoints ==
  /\ pc = "idle"
  /\ points' = getBreakEvenPoints(legs)
  /\ op' = "getBreakEvenPoints"
  /\ pc' = "done"
  /\ UNCHANGED <<legs, argLeg, argPrice, result, isNaN, chartVars>>

CallGetBreakEvenPointsUnsorted ==
  /\ pc = "idle"
  /\ points' = getBreakEvenPointsUnsorted(legs)
  /\ op' = "getBreakEvenPointsUnsorted"
  /\ pc' = "done"
  /\ UNCHANGED <<legs, argLeg, argPrice, result, isNaN, chartVars>>

CallGetMaxProfit ==
  /\ pc = "idle"
  /\ result' = getMaxProfit(legs)
  /\ op' = "getMaxProfit"
  /\ pc' = "done"
  /\ UNCHANGED <<legs, argLeg, argPrice, isNaN, points, chartVars>>

CallGetMaxLoss ==
  /\ pc = "idle"
  /\ result' = getMaxLoss(legs)
  /\ op' = "getMaxLoss"
  /\ pc' = "done"
  /\ UNCHANGED <<legs, argLeg, argPrice, isNaN, points, chartVars>>

(* options.sort((a, b) => a.strike_price - b.strike_price), used by the    *)
(* faulty variant below that sorts the caller's array in place.           *)
RECURSIVE SortByStrike(_)
SortByStrike(options) ==
  IF options = <<>> THEN <<>>
  ELSE LET n == Len(options)
           r == SortByStrike(SubSeq(options, 1, n - 1))
           RECURSIVE Ins(_, _)
           Ins(x, t) == IF t = <<>> THEN <<x>>
                        ELSE IF x.strike_price < Head(t).strike_price THEN <<x>> \o t
                        ELSE <<Head(t)>> \o Ins(x, Tail(t))
       IN Ins(options[n], r)

CallCalculateMedianStrikePriceInPlace ==
  /\ pc = "idle"
  /\ isNaN' = (legs = <<>>)
  /\ result' = IF legs = <<>> THEN 0 ELSE calculateMedianStrikePrice(legs)
  /\ legs' = SortByStrike(legs)
  /\ op' = "calculateMedianStrikePrice"
  /\ pc' = "done"
  /\ UNCHANGED <<argLeg, argPrice, points, chartVars>>

CallCalculateMedianStrikePrice ==
  /\ pc = "idle"
  /\ isNaN' = (legs = <<>>)
  /\ result' = IF legs = <<>> THEN 0 ELSE calculateMedianStrikePrice(legs)
  /\ op' = "calculateMedianStrikePrice"
  /\ pc' = "done"
  /\ UNCHANGED <<legs, argLeg, argPrice, points, chartVars>>

(* generateChartData, lines 130-139: the declarations before the loop.     *)
GenerateChartDataBegin ==
  /\ pc = "idle"
  /\ isNaN' = (legs = <<>>)
  /\ LET strikePriceMedian == IF legs = <<>> THEN 0 ELSE calculateMedianStrikePrice(legs)
         start == MathRound(strikePriceMedian * CHART_PRICE_RANGE_NUM, CHART_PRICE_RANGE_DEN)
         end == MathRound(strikePriceMedian + start, 1)
     IN /\ startPrice' = start
        /\ endPrice' = end
        /\ step' = MathRound(end - start, CHART_STEP_COUNT)
        /\ i' = start
  /\ prices' = <<>>
  /\ profits' = <<>>
  /\ op' = "generateChartData"
  /\ pc' = "loop"
  /\ UNCHANGED <<legs, argLeg, argPrice, result, points>>

(* One iteration of the for loop of lines 141-144. *)
(* Faulty variant: the profit is taken at the next price. *)
GenerateChartDataLoopShifted ==
  /\ pc = "loop"
  /\ LoopCond(i, endPrice, isNaN)
  /\ Len(prices) < MaxSamples
  /\ prices' = Append(prices, i)
  /\ profits' = Append(profits, calculateStrategyProfitLoss(legs, Half(i + step)))
  /\ i' = i + step
  /\ UNCHANGED <<legs, pc, op, argLeg, argPrice, result, isNaN, points,
                 startPrice, endPrice, step>>

GenerateChartDataLoop ==
  /\ pc = "loop"
  /\ LoopCond(i, endPrice, isNaN)
  /\ Len(prices) < MaxSamples
  /\ prices' = Append(prices, i)
  /\ profits' = Append(profits, calculateStrategyProfitLoss(legs, Half(i)))
  /\ i' = i + step
  /\ UNCHANGED <<legs, pc, op, argLeg, argPrice, result, isNaN, points,
                 startPrice, endPrice, step>>

(* Loop exit and the return of line 146. *)
GenerateChartDataReturn ==
  /\ pc = "loop"
  /\ ~LoopCond(i, endPrice, isNaN)
  /\ pc' = "done"
  /\ UNCHANGED <<legs, op, argLeg, argPrice, result, isNaN, points, chartVars>>

Next ==
  \/ CallCalculateProfitLossAtPrice
  \/ CallCalculateStrategyProfitLoss
  \/ CallGetBreakEvenPoints
  \/ CallGetBreakEvenPointsUnsorted
  \/ CallGetMaxProfit
  \/ CallGetMaxLoss
  \/ CallCalculateMedianStrikePrice
  \/ GenerateChartDataBegin
  \/ GenerateChartDataLoop
  \/ GenerateChartDataReturn

Spec == Init /\ [][Next]_vars

(* ------------------------------ claims --------------------------------- *)

ChartCall == op = "generateChartData" /\ legs # <<>>

ChartReturned == ChartCall /\ pc = "done"

(* C1: generateChartData terminates for every non-empty strategy; when     *)
(* step is 0 the sampling loop stops after emitting at most one sample.    *)
C1_StepZeroEmitsAtMostOneSample ==
  (ChartCall /\ step = 0) => Len(prices) <= 1

(* C2: at every iteration of the sampling loop and in the returned value,  *)
(* prices and profits have the same length and profits[k] is the strategy  *)
(* profit/loss at prices[k].                                               *)
C2_PricesProfitsAligned ==
  op = "generateChartData" =>
    /\ Len(prices) = Len(profits)
    /\ \A k \in DOMAIN prices :
         profits[k] = calculateStrategyProfitLoss(legs, Half(prices[k]))

C2_Witness ==
  /\ ChartReturned
  /\ Len(prices) >= 2
  /\ profits[1] # profits[Len(profits)]

LongCall100 ==
  [type |-> "Call", position |-> "Long", strike_price |-> 100, bid |-> 4, ask |-> 6]

(* C3: for the single long call with strike 100, bid 4, ask 6, getMaxLoss  *)
(* returns -5.                                                             *)
C3_LongCallMaxLossIsPremium ==
  (op = "getMaxLoss" /\ legs = <<LongCall100>>) => result = Half(-5)

(* C4: the break-even price computed for a leg is a price at which that    *)
(* leg's profit/loss is zero.                                              *)
C4_BreakEvenZeroesProfitLoss ==
  /\ op = "getBreakEvenPointsUnsorted" =>
       \A k \in DOMAIN legs : calculateProfitLossAtPrice(legs[k], points[k]) = 0
  /\ (op = "getBreakEvenPoints" /\ Len(legs) = 1) =>
       calculateProfitLossAtPrice(legs[1], points[1]) = 0

OppositePosition(option) ==
  [option EXCEPT !.position = IF option.position = "Long" THEN "Short" ELSE "Long"]

(* C5: two legs that differ only in position have opposite profit/loss at  *)
(* every price, negative prices included.                                  *)
C5_LongShortOpposite ==
  op = "calculateProfitLossAtPrice" =>
    result = - calculateProfitLossAtPrice(OppositePosition(legs[argLeg]), argPrice)

C5_Witness ==
  /\ op = "calculateProfitLossAtPrice"
  /\ argPrice < 0
  /\ legs[argLeg].type = "Put"
  /\ legs[argLeg].position = "Short"
  /\ result < 0

(* C6: getMaxProfit is never below 0 and getMaxLoss never above 0,         *)
(* whatever the legs; both are exactly 0 for the empty strategy.           *)
C6_BoundsNeverWorseThanZero ==
  /\ op = "getMaxProfit" => (result >= 0 /\ (legs = <<>> => result = 0))
  /\ op = "getMaxLoss" => (result <= 0 /\ (legs = <<>> => result = 0))

C6_Witness ==
  /\ op = "getMaxProfit"
  /\ legs # <<>>
  /\ \A k \in DOMAIN legs : maxProfitCandidate(legs[k]) < 0
  /\ result = 0

IsNonDecreasing(s) == \A a, b \in DOMAIN s : a < b => s[a] <= s[b]

Count(v, s) == Cardinality({k \in DOMAIN s : s[k] = v})

IsPermutation(s, t) ==
  /\ Len(s) = Len(t)
  /\ \A k \in DOMAIN t : Count(t[k], s) = Count(t[k], t)

(* C7: the sorted break-even variant is non-decreasing and a permutation   *)
(* (duplicates kept) of the unsorted variant, which has one value per leg  *)
(* in leg order.                                                           *)
C7_SortedIsPermutationOfUnsorted ==
  /\ op = "getBreakEvenPoints" =>
       /\ IsNonDecreasing(points)
       /\ IsPermutation(points, getBreakEvenPointsUnsorted(legs))
  /\ op = "getBreakEvenPointsUnsorted" =>
       /\ Len(points) = Len(legs)
       /\ \A k \in DOMAIN legs : points[k] = breakEven(legs[k])

C7_Witness ==
  /\ op = "getBreakEvenPoints"
  /\ Len(points) = 2
  /\ points # getBreakEvenPointsUnsorted(legs)

C9_InputsNotMutated == [][legs' = legs]_vars

C9_Witness ==
  /\ op \in {"calculateMedianStrikePrice", "getBreakEvenPoints", "generateChartData"}
  /\ pc = "done"
  /\ Len(legs) = 2
  /\ legs[1].strike_price > legs[2].strike_price
  /\ breakEven(legs[1]) > breakEven(legs[2])

ClaimedStart ==
  MathRound(calculateMedianStrikePrice(legs) * CHART_PRICE_RANGE_NUM, CHART_PRICE_RANGE_DEN)

ClaimedEnd == MathRound(calculateMedianStrikePrice(legs) + ClaimedStart, 1)

ClaimedStep == MathRound(ClaimedEnd - ClaimedStart, CHART_STEP_COUNT)

SamplesAreAProgression ==
  /\ prices # <<>>
  /\ prices[1] = ClaimedStart
  /\ \A k \in 1..(Len(prices) - 1) : prices[k + 1] - prices[k] = ClaimedStep
  /\ \A k \in DOMAIN prices : prices[k] <= ClaimedEnd

(* C10 as stated: the returned prices start at start, advance by exactly   *)
(* step, stay <= end, and the last sampled price equals end.               *)
C10_LastSampleIsEnd ==
  ChartReturned => (SamplesAreAProgression /\ prices[Len(prices)] = ClaimedEnd)

(* C10 as amended: the returned prices start at start, advance by exactly  *)
(* step, stay <= end, and the last sampled price is less than one step     *)
(* below end (it is end exactly when step divides end - start).            *)
C10_LastSampleWithinStepOfEnd ==
  ChartReturned =>
    /\ SamplesAreAProgression
    /\ prices[Len(prices)] > ClaimedEnd - ClaimedStep
    /\ (prices[Len(prices)] = ClaimedEnd) <=> ((ClaimedEnd - ClaimedStart) % ClaimedStep = 0)

C10_Witness ==
  /\ ChartReturned
  /\ prices[Len(prices)] < endPrice
  /\ Len(prices) >= 2

====
